---- MODULE Spec2Model ----
(***************************************************************************)
(* Model of the retry loop (src/retry.py), of the shared response slot     *)
(* (src/utils.py) and of the report run, poll and download of main         *)
(* (src/example.py) of the Tambla report downloader.                       *)
(***************************************************************************)
EXTENDS Integers, Sequences, FiniteSets, TLC

(* ------------------------------ bounds --------------------------------- *)
\* longest list of queued functions
MaxLen == 2
\* largest value of the retries argument of run
MaxRetries == 2
\* largest value of the delay argument of run
MaxDelay == 1
\* longest history of calls made on ResponseCheck
MaxOps == 4

\* the values of the retries argument of run: negative, zero and positive
RetriesArgs == (0 - 1)..MaxRetries

(* ------------------------------ values --------------------------------- *)
\* Python values that queued functions return and expect_val may hold.
\* "None", "False" and "0" are all falsy; False == 0 in Python.
RetValues == {"None", "False", "0"}

\* Python values a response message / expected_response may hold; "nan" is
\* float('nan'), the builtin value that is not equal to itself.
SlotValues == {"None", "ok", "fail", "nan"}

\* NO_EXPECTATION = object(): a fresh object, identical to no other value
NO_EXPECTATION == "NO_EXPECTATION"

\* the numeric class of a value under ==  (bool is a subclass of int)
PyNum(v) == IF v \in {"False", "0"} THEN "0" ELSE v

\* a == b for the builtin values above
PyEq(a, b) == a # "nan" /\ b # "nan" /\ PyNum(a) = PyNum(b)

\* a != b for the builtin values above
PyNe(a, b) == ~PyEq(a, b)

\* what one invocation of a queued function can do: return a value, raise an
\* Exception, or raise a BaseException that is not an Exception
\* (KeyboardInterrupt, SystemExit)
Outcomes == [kind : {"return"}, val : RetValues]
              \cup {[kind |-> "Exception", val |-> "None"],
                    [kind |-> "BaseException", val |-> "None"]}

VARIABLES
    loop,      \* Retry.loop: the queued (function, expectation) pairs
    pc,        \* where the Retry instance is: "build", "run", "done", "raised"
    retries,   \* argument of the current run
    delay,     \* argument of the current run
    attempt,   \* loop variable of run's outer for
    i,         \* position of run's inner for in loop (1-based)
    ret,       \* value returned by run (when pc = "done")
    trace,     \* every invocation made so far: attempt, function, outcome
    sleeps,    \* number of time.sleep(delay) calls made by run
    response,  \* ResponseCheck.response
    hist,      \* calls made on ResponseCheck: op, argument, returned value
    runs,      \* number of calls of run that have returned on the instance
    kept,      \* the pairs that were queued when run last returned
    mpc,       \* where main is
    sent,      \* number of report requests submitted by run_report
    pending,   \* the requests whose response has not been observed yet
    origin,    \* the request whose response set the value now in the slot
    checks,    \* the check_response calls of main: request, result, origin
    pollLog,   \* the responses awaited by get_report_details, in order
    desc,      \* the ReportDetails built last
    fetched,   \* download_report's filepath and the response to its fetch
    written,   \* the file written by download_report: path and content
    msg        \* what download_report printed: "success" or "failure"

vars == <<loop, pc, retries, delay, attempt, i, ret, trace, sleeps,
          response, hist, runs, kept, mpc, sent, pending, origin, checks,
          pollLog, desc, fetched, written, msg>>

retryVars == <<loop, pc, retries, delay, attempt, i, ret, trace, sleeps>>
slotVars == <<response, hist>>
rerunVars == <<runs, kept>>
mainVars == <<mpc, sent, pending, origin, checks, pollLog, desc, fetched,
              written, msg>>

\* "nothing yet" for desc, fetched and written
Nothing == [kind |-> "nothing"]

(* ------------------------------- Retry --------------------------------- *)
\* Retry.__init__ / class attribute response = None
Init ==
    /\ loop = << >>
    /\ pc = "build"
    /\ retries = 0
    /\ delay = 0
    /\ attempt = 0
    /\ i = 0
    /\ ret = FALSE
    /\ trace = << >>
    /\ sleeps = 0
    /\ response = "None"
    /\ hist = << >>
    /\ runs = 0
    /\ kept = << >>
    /\ mpc = "start"
    /\ sent = 0
    /\ pending = {}
    /\ origin = 0
    /\ checks = << >>
    /\ pollLog = << >>
    /\ desc = Nothing
    /\ fetched = Nothing
    /\ written = Nothing
    /\ msg = "none"

\* add_func as it would be with self.loop.insert(0, ...) for append
add_func_Prepend(named, expect_val) ==
    /\ pc = "build"
    /\ Len(loop) < MaxLen
    /\ loop' = <<[id |-> Len(loop) + 1, named |-> named,
                  expected |-> expect_val]>> \o loop
    /\ UNCHANGED <<pc, retries, delay, attempt, i, ret, trace, sleeps>>
    /\ UNCHANGED <<slotVars, rerunVars, mainVars>>

\* Retry.add_func(function, *args, expect_val=..., **kwargs)
add_func(named, expect_val) ==
    /\ pc = "build"
    /\ Len(loop) < MaxLen
    /\ loop' = Append(loop, [id |-> Len(loop) + 1, named |-> named,
                             expected |-> expect_val])
    /\ UNCHANGED <<pc, retries, delay, attempt, i, ret, trace, sleeps>>
    /\ UNCHANGED <<slotVars, rerunVars, mainVars>>

\* line 93 as it would be with None for the "no expectation" default
HasExpectation_NoneSentinel(expected) ==
    expected \notin {NO_EXPECTATION, "None"}

\* line 93: expected is not NO_EXPECTATION
HasExpectation(expected) == expected # NO_EXPECTATION

\* line 96 as it would be with the comparison inverted
Mismatch_Inverted(result, expected) == PyEq(result, expected)

\* line 96: result != expected
Mismatch(result, expected) == PyNe(result, expected)

\* line 84 as it would be with range(1, retries)
MoreAttempts_OffByOne(att, r) == att + 1 < r

\* line 84: the attempts left for run's outer for after the one that has
\* just failed: attempt + 1 is still in range(1, retries + 1)
MoreAttempts(att, r) == att + 1 <= r

\* the end of an attempt as it would be if a failed attempt were resumed at
\* the function that failed
EndAttempt_Resume(success) ==
    IF success
    THEN /\ pc' = "done"
         /\ ret' = TRUE
         /\ UNCHANGED <<attempt, i, sleeps>>
    ELSE /\ sleeps' = IF delay > 0 THEN sleeps + 1 ELSE sleeps
         /\ IF MoreAttempts(attempt, retries)
            THEN /\ attempt' = attempt + 1
                 /\ UNCHANGED <<pc, ret, i>>
            ELSE /\ pc' = "done"
                 /\ ret' = FALSE
                 /\ UNCHANGED <<attempt, i>>

\* the end of an attempt as it would be with "return True" left out of the
\* outer for and "return success" put after it
EndAttempt_NoEarlyReturn(success) ==
    /\ sleeps' = IF delay > 0 /\ ~success THEN sleeps + 1 ELSE sleeps
    /\ IF MoreAttempts(attempt, retries)
       THEN /\ attempt' = attempt + 1
            /\ i' = 1
            /\ UNCHANGED <<pc, ret>>
       ELSE /\ pc' = "done"
            /\ ret' = success
            /\ UNCHANGED <<attempt, i>>

\* the end of one pass of run's outer for, reached when the inner for is
\* exhausted (success = TRUE) or left by break (success = FALSE)
EndAttempt(success) ==
    IF success
    THEN /\ pc' = "done"
         /\ ret' = TRUE
         /\ UNCHANGED <<attempt, i, sleeps>>
    ELSE /\ sleeps' = IF delay > 0 THEN sleeps + 1 ELSE sleeps
         /\ IF MoreAttempts(attempt, retries)
            THEN /\ attempt' = attempt + 1
                 /\ i' = 1
                 /\ UNCHANGED <<pc, ret>>
            ELSE /\ pc' = "done"
                 /\ ret' = FALSE
                 /\ UNCHANGED <<attempt, i>>

\* Retry.run(retries, delay) up to the first invocation of a queued function
run(r, d) ==
    /\ pc = "build"
    /\ retries' = r
    /\ delay' = d
    /\ IF r < 1
       THEN \* range(1, retries + 1) is empty
            /\ pc' = "done"
            /\ ret' = FALSE
            /\ UNCHANGED <<attempt, i>>
       ELSE /\ attempt' = 1
            /\ i' = 1
            /\ IF Len(loop) = 0
               THEN pc' = "done" /\ ret' = TRUE
               ELSE pc' = "run" /\ UNCHANGED ret
    /\ UNCHANGED <<loop, trace, sleeps>>
    /\ UNCHANGED <<slotVars, rerunVars, mainVars>>

\* one pass of the body of run's inner for, on loop[i], the function doing o
\* when it is invoked; followed by the rest of the outer for when the inner
\* for ends here. What the pass does to the Retry instance:
invoke(o) ==
    /\ pc = "run"
    /\ LET func == loop[i]
       IN IF ~func.named
          THEN \* f"...{func.func.__name__}" raises AttributeError inside the
               \* try, before func(); the except clause builds the same
               \* f-string and raises it again, outside any try
               /\ pc' = "raised"
               /\ UNCHANGED <<attempt, i, ret, trace, sleeps>>
          ELSE /\ trace' = Append(trace, [att |-> attempt, id |-> func.id,
                                          out |-> o])
               /\ CASE o.kind = "BaseException" ->
                         \* not caught by "except Exception"
                         /\ pc' = "raised"
                         /\ UNCHANGED <<attempt, i, ret, sleeps>>
                    [] o.kind = "Exception" -> EndAttempt(FALSE)
                    [] o.kind = "return" ->
                         IF HasExpectation(func.expected)
                              /\ Mismatch(o.val, func.expected)
                         THEN EndAttempt(FALSE)
                         ELSE IF i = Len(loop)
                              THEN EndAttempt(TRUE)
                              ELSE /\ i' = i + 1
                                   /\ UNCHANGED <<pc, attempt, ret, sleeps>>
    /\ UNCHANGED <<loop, retries, delay>>

\* the pass for a queued function that touches nothing but its own result
body(o) ==
    /\ invoke(o)
    /\ UNCHANGED <<slotVars, rerunVars, mainVars>>

\* the calls of add_func: any expect_val for a function that has a __name__;
\* a callable without __name__ is never invoked and its expectation never
\* read (line 90 raises first), so one expect_val stands for all of them
AddFunc ==
    \E n \in BOOLEAN, e \in RetValues \cup {NO_EXPECTATION} :
        /\ n \/ e = NO_EXPECTATION
        /\ add_func(n, e)
Run == \E r \in RetriesArgs, d \in {0, MaxDelay} : run(r, d)
Body == \E o \in Outcomes : body(o)

Next == AddFunc \/ Run \/ Body

Spec == Init /\ [][Next]_vars

(* ------------------------ Retry, run several times --------------------- *)
\* self.loop when run returns, as it would be with self.loop.clear() before
\* the return statements
LoopAfterRun_Clear(l) == << >>

\* lines 104-115: self.loop when run returns; run never assigns self.loop
LoopAfterRun(l) == l

\* the first run has returned to its caller (lines 108, 115): its locals are
\* gone and add_func and run can be called on the instance again, for the
\* second run
returned ==
    /\ pc = "done"
    /\ runs = 0
    /\ runs' = runs + 1
    /\ kept' = loop
    /\ loop' = LoopAfterRun(loop)
    /\ pc' = "build"
    /\ retries' = 0
    /\ delay' = 0
    /\ attempt' = 0
    /\ i' = 0
    /\ ret' = FALSE
    /\ trace' = << >>
    /\ sleeps' = 0
    /\ UNCHANGED <<slotVars, mainVars>>

\* calls of add_func and of run as in the docstring's example: functions
\* with a __name__, at least one attempt, no delay
AddNamed == \E e \in RetValues \cup {NO_EXPECTATION} : add_func(TRUE, e)
RunNoDelay == \E r \in 1..MaxRetries : run(r, 0)

NextRerun == AddNamed \/ RunNoDelay \/ Body \/ returned

SpecRerun == Init /\ [][NextRerun]_vars

(* --------------------------- ResponseCheck ----------------------------- *)
\* line 16 as it would be with "is" for "=="
CheckResult_Identity(stored, expected_response) == stored = expected_response

\* line 16: result = cls.response == expected_response
CheckResult(stored, expected_response) == PyEq(stored, expected_response)

\* line 17 as it would be if it were left out
AfterCheck_Keep(stored, result) == stored

\* line 17 as it would be under "if result:"
AfterCheck_OnMatch(stored, result) == IF result THEN "None" ELSE stored

\* line 17: cls.response = None, whatever result is
AfterCheck(stored, result) == "None"

\* ResponseCheck.set_response(response)
set_response(x) ==
    /\ Len(hist) < MaxOps
    /\ response' = x
    /\ hist' = Append(hist, [op |-> "set", arg |-> x, ret |-> "None"])
    /\ UNCHANGED <<retryVars, rerunVars, mainVars>>

\* get_response as it would be if reading consumed the value
get_response_Consume ==
    /\ Len(hist) < MaxOps
    /\ hist' = Append(hist, [op |-> "get", arg |-> "None", ret |-> response])
    /\ response' = "None"
    /\ UNCHANGED <<retryVars, rerunVars, mainVars>>

\* ResponseCheck.get_response()
get_response ==
    /\ Len(hist) < MaxOps
    /\ hist' = Append(hist, [op |-> "get", arg |-> "None", ret |-> response])
    /\ UNCHANGED response
    /\ UNCHANGED <<retryVars, rerunVars, mainVars>>

\* ResponseCheck.check_response(expected_response)
check_response(e) ==
    /\ Len(hist) < MaxOps
    /\ LET result == CheckResult(response, e)
       IN /\ response' = AfterCheck(response, result)
          /\ hist' = Append(hist, [op |-> "check", arg |-> e,
                                   ret |-> IF result THEN "True" ELSE "False"])
    /\ UNCHANGED <<retryVars, rerunVars, mainVars>>

SetResponse == \E x \in SlotValues : set_response(x)
GetResponse == get_response
CheckResponse == \E e \in SlotValues : check_response(e)

NextSlot == SetResponse \/ GetResponse \/ CheckResponse

SpecSlot == Init /\ [][NextSlot]_vars

(* ------------------------- properties of Retry ------------------------- *)
\* the queued pair of the function that trace entry e invoked
PairOf(e) == loop[CHOOSE j \in 1..Len(loop) : loop[j].id = e.id]

\* the invocation e returned, and met its expectation if it has one
Passed(e) ==
    /\ e.out.kind = "return"
    /\ \/ PairOf(e).expected = NO_EXPECTATION
       \/ PyEq(e.out.val, PairOf(e).expected)

\* the invocation e raised an error, or returned a value that differs from
\* its expected value
Failed(e) ==
    \/ e.out.kind = "Exception"
    \/ /\ e.out.kind = "return"
       /\ PairOf(e).expected # NO_EXPECTATION
       /\ ~PyEq(e.out.val, PairOf(e).expected)

\* the functions invoked in attempt a, in the order of their invocation
RECURSIVE InvokedIn(_, _)
InvokedIn(a, n) ==
    IF n = 0 THEN << >>
    ELSE IF trace[n].att = a
         THEN Append(InvokedIn(a, n - 1), trace[n].id)
         ELSE InvokedIn(a, n - 1)

\* the first k queued functions, in the order they were added
FirstAdded(k) == [j \in 1..k |-> j]

\* number of invocations of the function added j-th
Count(j) == Cardinality({n \in 1..Len(trace) : trace[n].id = j})

\* the attempts in which some function was invoked
AttemptsMade == {trace[n].att : n \in 1..Len(trace)}

\* attempt a invoked every queued function and every one of them passed
AttemptSucceeded(a) ==
    \A j \in 1..Len(loop) :
        \E n \in 1..Len(trace) :
            trace[n].att = a /\ trace[n].id = loop[j].id /\ Passed(trace[n])

\* attempt a failed at the function added k-th
AttemptFailedAt(a, k) ==
    \E n \in 1..Len(trace) :
        trace[n].att = a /\ trace[n].id = k /\ Failed(trace[n])

\* C1: in a run with retries = 1, when the function added k-th is the first
\* to raise an error or to return a value other than its expected value, run
\* returns False, the functions added 1st..k-th have each been invoked once,
\* in that order, and no later function has been invoked.
C1_ShortCircuit ==
    (pc # "build" /\ retries = 1) =>
        \A n \in 1..Len(trace) :
            (Failed(trace[n]) /\ \A m \in 1..(n - 1) : Passed(trace[m])) =>
                /\ pc = "done"
                /\ ret = FALSE
                /\ [m \in 1..Len(trace) |-> trace[m].id] = FirstAdded(trace[n].id)

\* C1 happens: two functions are queued, the first one fails its expectation
\* in a run with retries = 1, and the run has returned
C1_Witness ==
    /\ pc = "done"
    /\ retries = 1
    /\ Len(loop) = 2
    /\ Len(trace) = 1
    /\ trace[1].out.kind = "return"
    /\ Failed(trace[1])

\* C2: when run returns, it returns True iff some attempt invoked every
\* queued function with no error and every expectation met; when it returns
\* False, every one of its attempts (retries of them, none if retries < 1)
\* has been made and has failed.
C2_ReturnValue ==
    pc = "done" =>
        /\ ret <=> \E a \in 1..retries : AttemptSucceeded(a)
        /\ ~ret => \A a \in 1..retries :
                       \E k \in 1..Len(loop) : AttemptFailedAt(a, k)

\* C2 happens: run has returned True after a failed first attempt
C2_Witness ==
    /\ pc = "done"
    /\ ret
    /\ attempt = 2
    /\ Len(loop) = 2

\* C3: when no invocation fails, run returns True after exactly one attempt
\* (every queued function invoked once, in order), whatever retries is, also
\* retries = 0 and retries < 0.
C3_SuccessOneAttempt ==
    (pc = "done" /\ \A n \in 1..Len(trace) : Passed(trace[n])) =>
        /\ ret = TRUE
        /\ [m \in 1..Len(trace) |-> trace[m].id] = FirstAdded(Len(loop))

\* C4: when run with retries = R >= 1 returns and every attempt it made
\* failed at the function added k-th, then it made exactly R attempts, it
\* returns False, every attempt invoked the functions added 1st..k-th in
\* that order, so each of them R times in all, and later ones never.
C4_BoundedRetry ==
    (pc = "done" /\ retries >= 1 /\ trace # << >>) =>
        \A k \in 1..Len(loop) :
            (\A a \in AttemptsMade : AttemptFailedAt(a, k)) =>
                /\ AttemptsMade = 1..retries
                /\ ret = FALSE
                /\ \A a \in 1..retries :
                       InvokedIn(a, Len(trace)) = FirstAdded(k)
                /\ \A j \in 1..Len(loop) :
                       Count(j) = IF j <= k THEN retries ELSE 0

\* C4 happens: two attempts, both failed at the second of two functions
C4_Witness ==
    /\ pc = "done"
    /\ retries = 2
    /\ Len(loop) = 2
    /\ AttemptFailedAt(1, 2)
    /\ AttemptFailedAt(2, 2)

\* C5: run never ends by propagating an error to its caller: the only thing
\* that can leave run other than its boolean result is a BaseException that
\* is not an error (KeyboardInterrupt, SystemExit) raised by a function.
C5_NeverPropagates ==
    pc = "raised" =>
        /\ trace # << >>
        /\ trace[Len(trace)].out.kind = "BaseException"

\* C6: an invocation that returns a value makes its attempt fail exactly
\* when its function was added with an expect_val and the value differs (!=)
\* from it; without expect_val no returned value makes the attempt fail, and
\* an expect_val of None is an expectation like any other.
C6_Sentinel ==
    [][(Len(trace') = Len(trace) + 1
          /\ trace'[Len(trace')].out.kind = "return") =>
           LET e == trace'[Len(trace')]
           IN (attempt' = attempt + 1 \/ (pc' = "done" /\ ret' = FALSE))
                  <=> (PairOf(e).expected # NO_EXPECTATION
                         /\ ~PyEq(e.out.val, PairOf(e).expected))]_vars

\* C6 happens: a function without expectation returned None and one that
\* expects None returned None, and the attempt succeeded
C6_Witness ==
    /\ pc = "done"
    /\ ret
    /\ Len(loop) = 2
    /\ loop[1].expected = NO_EXPECTATION
    /\ loop[2].expected = "None"
    /\ Len(trace) = 2
    /\ trace[1].out = [kind |-> "return", val |-> "None"]
    /\ trace[2].out = [kind |-> "return", val |-> "None"]

\* C7: add_func invokes nothing, keeps the pairs queued before it and their
\* order, and appends one pair at the end; run invokes the functions in the
\* order they were added.
C7_AppendOnly ==
    [][/\ loop' # loop =>
            /\ Len(loop') = Len(loop) + 1
            /\ SubSeq(loop', 1, Len(loop)) = loop
            /\ loop'[Len(loop')].id = Len(loop) + 1
            /\ trace' = trace
            /\ pc' = pc
       /\ trace' # trace =>
            /\ Len(trace') = Len(trace) + 1
            /\ SubSeq(trace', 1, Len(trace)) = trace
            /\ LET e == trace'[Len(trace')]
               IN e.id = 1 + Cardinality({n \in 1..Len(trace) :
                                              trace[n].att = e.att})]_vars

\* C7 happens: two functions were added and run has invoked both
C7_Witness ==
    /\ Len(loop) = 2
    /\ Len(trace) = 2
    /\ trace[1].att = 1
    /\ trace[2].att = 1

(* --------------------- properties of ResponseCheck --------------------- *)
\* the value held by the slot before the n-th call, read off the calls made:
\* the argument of the latest set_response not followed by a check_response
StoredBefore(n) ==
    LET S == {m \in 1..(n - 1) : hist[m].op \in {"set", "check"}}
    IN IF S = {} THEN "None"
       ELSE LET m == CHOOSE x \in S : \A y \in S : y <= x
            IN IF hist[m].op = "set" THEN hist[m].arg ELSE "None"

\* before the n-th call no value is set: set_response was never called, or
\* not since the last check_response
AbsentBefore(n) ==
    LET S == {m \in 1..(n - 1) : hist[m].op \in {"set", "check"}}
    IN S = {} \/ hist[CHOOSE x \in S : \A y \in S : y <= x].op = "check"

\* set_response(x); check_response(x) returns True and a check_response(x)
\* right after it returns False
ConsumeOnce(x) ==
    \A n \in 1..(Len(hist) - 1) :
        (hist[n].op = "set" /\ hist[n].arg = x
           /\ hist[n + 1].op = "check" /\ hist[n + 1].arg = x) =>
            /\ hist[n + 1].ret = "True"
            /\ (n + 2 <= Len(hist) /\ hist[n + 2].op = "check"
                  /\ hist[n + 2].arg = x) => hist[n + 2].ret = "False"

\* check_response(x) made when no value is set returns False
AbsentCheck(x) ==
    \A n \in 1..Len(hist) :
        (hist[n].op = "check" /\ hist[n].arg = x /\ AbsentBefore(n)) =>
            hist[n].ret = "False"

\* C8 as claimed: consume-once for every value x.
C8_ConsumeOnceAny == \A x \in SlotValues : ConsumeOnce(x)

\* C8: consume-once for every value x other than None that is equal to
\* itself: set_response(x); check_response(x) returns True and a second
\* check_response(x) with no set_response in between returns False.
C8_ConsumeOnce ==
    \A x \in SlotValues : (x # "None" /\ PyEq(x, x)) => ConsumeOnce(x)

\* C8 happens: set_response("ok"), then check_response("ok") twice
C8_Witness ==
    /\ Len(hist) = 3
    /\ hist[1] = [op |-> "set", arg |-> "ok", ret |-> "None"]
    /\ hist[2].op = "check" /\ hist[2].arg = "ok"
    /\ hist[3].op = "check" /\ hist[3].arg = "ok"

\* C9 as claimed: for every expected value x, check_response(x) made when no
\* value is set returns False.
C9_AbsentCheckAny == \A x \in SlotValues : AbsentCheck(x)

\* C9: for every expected value x other than None, check_response(x) made
\* when no value is set (never set, or consumed by an earlier check) returns
\* False.
C9_AbsentCheck == \A x \in SlotValues : x # "None" => AbsentCheck(x)

\* C9 happens: a check_response("ok") on the slot never set, and one on the
\* slot that a mismatching check_response has consumed
C9_Witness ==
    /\ Len(hist) = 4
    /\ hist[1].op = "check" /\ hist[1].arg = "ok"
    /\ hist[2].op = "set" /\ hist[2].arg = "ok"
    /\ hist[3].op = "check" /\ hist[3].arg = "fail"
    /\ hist[4].op = "check" /\ hist[4].arg = "ok"

\* C10: check_response(e) returns (v == e) for the value v stored before the
\* call, and after it the slot holds None (what get_response then returns),
\* whether v == e or not.
C10_CheckClears ==
    \A n \in 1..Len(hist) :
        hist[n].op = "check" =>
            /\ hist[n].ret = IF PyEq(StoredBefore(n), hist[n].arg)
                             THEN "True" ELSE "False"
            /\ n = Len(hist) => response = "None"
            /\ (n < Len(hist) /\ hist[n + 1].op = "get") =>
                   hist[n + 1].ret = "None"

\* C10 happens: a stored value, a check_response that does not match it, and
\* a get_response after it
C10_Witness ==
    /\ Len(hist) = 3
    /\ hist[1].op = "set" /\ hist[1].arg = "ok"
    /\ hist[2].op = "check" /\ hist[2].arg = "fail"
    /\ hist[3].op = "get"

\* C11: get_response returns the argument of the latest set_response not
\* followed by a check_response (a later set_response overwrites an earlier
\* one), None if there is none; get_response leaves the slot as it is, so
\* the calls of get_response made before a check_response do not change
\* what it returns.
C11_SlotContent ==
    /\ response = StoredBefore(Len(hist) + 1)
    /\ \A n \in 1..Len(hist) :
           /\ hist[n].op = "get" => hist[n].ret = StoredBefore(n)
           /\ hist[n].op = "check" =>
                  hist[n].ret = IF CheckResult(StoredBefore(n), hist[n].arg)
                                THEN "True" ELSE "False"

\* C11 happens: a value overwritten before it was consumed, read by
\* get_response and then matched by check_response
C11_Witness ==
    /\ Len(hist) = 4
    /\ hist[1].op = "set" /\ hist[1].arg = "ok"
    /\ hist[2].op = "set" /\ hist[2].arg = "fail"
    /\ hist[3].op = "get" /\ hist[3].ret = "fail"
    /\ hist[4].op = "check" /\ hist[4].arg = "fail" /\ hist[4].ret = "True"

(* --------------------- more properties of Retry ------------------------ *)
\* C13: when the attempts before the m-th all failed at the function added
\* k-th and the m-th attempt invoked every function with every expectation
\* met, run has returned True, no attempt follows the m-th, the functions
\* added 1st..k-th were invoked m times each and the later ones once.
C13_RetryUntilSuccess ==
    (pc # "build" /\ trace # << >>) =>
        \A m \in AttemptsMade : \A k \in 1..Len(loop) :
            (/\ AttemptSucceeded(m)
             /\ \A a \in 1..(m - 1) : AttemptFailedAt(a, k)) =>
                /\ pc = "done"
                /\ ret = TRUE
                /\ m <= retries
                /\ AttemptsMade = 1..m
                /\ \A j \in 1..Len(loop) :
                       Count(j) = IF j <= k THEN m ELSE 1

\* C13 happens: of two functions the first failed its expectation in the
\* first attempt and met it in the second, which succeeded
C13_Witness ==
    /\ pc = "done"
    /\ ret
    /\ Len(loop) = 2
    /\ loop[1].expected # NO_EXPECTATION
    /\ Len(trace) = 3
    /\ trace[1].att = 1 /\ trace[1].out.kind = "return" /\ Failed(trace[1])
    /\ trace[2].att = 2 /\ trace[2].id = 1
    /\ trace[3].att = 2 /\ trace[3].id = 2

\* C15: run waits only after a failed attempt that another attempt follows:
\* when it has returned, with delay > 0, after making attempts, it has
\* waited once less than it made attempts (R - 1 times when all R fail).
C15_DelayBetweenAttempts ==
    (pc = "done" /\ delay > 0 /\ trace # << >>) =>
        sleeps = Cardinality(AttemptsMade) - 1

\* C16 as claimed: once run has returned, the list no longer holds the pairs
\* queued before it, and a later run invokes none of them.
C16_Discarded ==
    runs >= 1 =>
        /\ \A j \in 1..Len(loop) : \A m \in 1..Len(kept) : loop[j] # kept[m]
        /\ \A n \in 1..Len(trace) : trace[n].id > Len(kept)

\* C16: once run has returned, the list still holds the pairs queued before
\* it, in their order, ahead of the pairs added afterwards; each attempt of a
\* second run invokes them again from the first, and a second run that
\* returns True has invoked every one of them.
C16_Kept ==
    runs >= 1 =>
        /\ Len(kept) <= Len(loop)
        /\ SubSeq(loop, 1, Len(kept)) = kept
        /\ \A a \in AttemptsMade :
               InvokedIn(a, Len(trace))
                   = FirstAdded(Len(InvokedIn(a, Len(trace))))
        /\ (pc = "done" /\ ret) =>
               \A j \in 1..Len(kept) : Count(j) >= 1

\* C16 happens: a second run has returned True on a list of one function
\* queued before the first run and one added after it
C16_Witness ==
    /\ runs = 1
    /\ Len(kept) = 1
    /\ Len(loop) = 2
    /\ pc = "done"
    /\ ret
    /\ Len(trace) = 2

(* --------------------------- ReportDetails ----------------------------- *)
\* Strings are sequences of characters. The keys of a vendor report record:
Keys == {"Id", "ReportFileName", "ReportName", "ReportStatus", "ReportDate",
         "ReportDateStr", "ErrorMessage"}

\* longest server path made of the characters of PathChars
MaxPath == 3

\* characters of server paths: an upper-case letter, the separator, the
\* dot and a lower-case letter
PathChars == {"R", "\\", ".", "r"}

\* the strings over PathChars of length n
PathsOfLen(n) == [1..n -> PathChars]

\* the server path "C:\out\Weekly Report.PDF"
InstancePath ==
    <<"C", ":", "\\", "o", "u", "t", "\\", "W", "e", "e", "k", "l", "y", " ",
      "R", "e", "p", "o", "r", "t", ".", "P", "D", "F">>

\* server paths of reports: "C:\o\R.X", "C:\out\Weekly Report.PDF" and
\* every string over PathChars up to MaxPath characters ("r" among them)
Paths ==
    {<<"C", ":", "\\", "o", "\\", "R", ".", "X">>, InstancePath}
        \cup UNION {PathsOfLen(n) : n \in 0..MaxPath}

\* ReportStatus.Processing.value
Processing == "Processing"

\* the values of ReportStatus
Statuses == {Processing, "Completed", "Viewed"}

\* the reports of the portal's list: the one this run requested and one
\* that was in the list before
ReportIds == {"new", "old"}

\* a vendor record: the keys it has, and the values of ReportFileName,
\* ReportStatus and Id when it has them (the other values are not read)
Records == [keys : SUBSET Keys, ReportFileName : Paths,
            ReportStatus : Statuses, Id : ReportIds]

\* kwargs.get(key) for a key whose value is a string: None when absent
Get(rec, key) == IF key \in rec.keys THEN rec[key] ELSE "None"

\* c.lower()
LowerChar(c) ==
    CASE c = "C" -> "c" [] c = "R" -> "r" [] c = "X" -> "x"
      [] c = "W" -> "w" [] c = "P" -> "p" [] c = "D" -> "d"
      [] c = "F" -> "f" [] OTHER -> c

\* s.lower()
Lower(s) == [k \in 1..Len(s) |-> LowerChar(s[k])]

\* s.split(sep)[0] in the place of s.split(sep)[-1]: what precedes the
\* first sep in s
LastPart_First(s, sep) ==
    LET at == {k \in 1..Len(s) : s[k] = sep}
    IN IF at = {} THEN s
       ELSE SubSeq(s, 1, (CHOOSE k \in at : \A m \in at : k <= m) - 1)

\* s.split(sep)[-1]: what follows the last sep in s, all of s without sep
LastPart(s, sep) ==
    LET at == {k \in 1..Len(s) : s[k] = sep}
    IN IF at = {} THEN s
       ELSE SubSeq(s, (CHOOSE k \in at : \A m \in at : m <= k) + 1, Len(s))

\* s.removesuffix(suffix)
RemoveSuffix(s, suffix) ==
    IF /\ suffix # << >>
       /\ Len(suffix) <= Len(s)
       /\ SubSeq(s, Len(s) - Len(suffix) + 1, Len(s)) = suffix
    THEN SubSeq(s, 1, Len(s) - Len(suffix))
    ELSE s

\* ReportDetails(**rec): the descriptor, or the error that __init__ raises
ReportDetails(rec) ==
    IF "ReportFileName" \notin rec.keys
    THEN \* line 51: None.split -> AttributeError
         [kind |-> "raise", error |-> "AttributeError"]
    ELSE LET server_filepath == rec.ReportFileName
             filename_ext == Lower(LastPart(server_filepath, "\\"))
             filetype == LastPart(filename_ext, ".")
             filename == RemoveSuffix(filename_ext, <<".">> \o filetype)
             id == Get(rec, "Id")
             status == Get(rec, "ReportStatus")
         IN [kind |-> "details",
             id |-> id,
             server_filepath |-> server_filepath,
             filename_ext |-> filename_ext,
             filetype |-> filetype,
             filename |-> filename,
             report_type |-> IF "ReportName" \in rec.keys
                             THEN "name" ELSE "None",
             status |-> status,
             download_url |-> <<id, server_filepath, status>>,
             report_date |-> IF "ReportDate" \in rec.keys
                             THEN "date" ELSE "None",
             report_date_str |-> IF "ReportDateStr" \in rec.keys
                                 THEN "datestr" ELSE "None",
             error_message |-> IF "ErrorMessage" \in rec.keys
                               THEN "error" ELSE "None"]

(* --------------------------- download_report --------------------------- *)
\* HTTP status codes of the responses to page.request.get
HttpOk == 200
HttpNotFound == 404

\* the responses to page.request.get: a status and a body, empty or not
FetchResponses == [kind : {"response"}, status : {HttpOk, HttpNotFound},
                   body : {<< >>, <<"b">>}]

\* the filepath argument of download_report: None (the default), "" or "o"
FilepathArgs == {[none |-> TRUE, v |-> << >>], [none |-> FALSE, v |-> << >>],
                 [none |-> FALSE, v |-> <<"o">>]}

\* get_report_data: the body for status 200, None otherwise
get_report_data(resp) ==
    IF resp.status = HttpOk THEN [none |-> FALSE, v |-> resp.body]
    ELSE [none |-> TRUE, v |-> << >>]

\* bool(x) of a str/bytes value or None
Truthy(x) == ~x.none /\ x.v # << >>

\* line 205 as it would be with "is not None"
GotData_NotNone(data) == ~data.none

\* line 205: if response := get_report_data(...)
GotData(data) == Truthy(data)

\* download_report(page, report_details, filepath), the fetch answering resp
download_report(report_details, filepath, resp) ==
    /\ fetched' = [kind |-> "response", status |-> resp.status,
                   body |-> resp.body, filepath |-> filepath]
    /\ LET data == get_report_data(resp)
       IN IF GotData(data)
          THEN /\ written' = [kind |-> "file",
                              path |-> IF Truthy(filepath) THEN filepath.v
                                       ELSE report_details.filename_ext,
                              content |-> data.v]
               /\ msg' = "success"
          ELSE /\ msg' = "failure"
               /\ UNCHANGED written

\* a record arrives and ReportDetails is built from it
Construct ==
    /\ mpc = "record"
    /\ \E rec \in Records :
           /\ desc' = ReportDetails(rec)
           /\ mpc' = IF desc'.kind = "raise" THEN "crashed" ELSE "details"
    /\ UNCHANGED <<sent, pending, origin, checks, pollLog, fetched, written,
                   msg>>
    /\ UNCHANGED <<retryVars, slotVars, rerunVars>>

\* download_report is called on the descriptor
Download ==
    /\ mpc = "details"
    /\ \E fp \in FilepathArgs, resp \in FetchResponses :
           download_report(desc, fp, resp)
    /\ mpc' = "downloaded"
    /\ UNCHANGED <<sent, pending, origin, checks, pollLog, desc>>
    /\ UNCHANGED <<retryVars, slotVars, rerunVars>>

\* the program at the point where a vendor record is at hand
InitReport ==
    /\ loop = << >> /\ pc = "build" /\ retries = 0 /\ delay = 0
    /\ attempt = 0 /\ i = 0 /\ ret = FALSE /\ trace = << >> /\ sleeps = 0
    /\ response = "None" /\ hist = << >> /\ runs = 0 /\ kept = << >>
    /\ mpc = "record" /\ sent = 0 /\ pending = {} /\ origin = 0
    /\ checks = << >> /\ pollLog = << >>
    /\ desc = Nothing /\ fetched = Nothing /\ written = Nothing
    /\ msg = "none"

NextReport == Construct \/ Download

SpecReport == InitReport /\ [][NextReport]_vars

(* -------------------------------- main --------------------------------- *)
\* most polls of one get_report_details call
MaxPolls == 3

\* the text that confirms a report request (line 126)
Confirmation == "Your request is being processed"

\* what the response to a report request can carry: the confirmation,
\* another message, a JSON body without "Message" (.get gives None), or a
\* body that is not JSON (response.json() raises)
ResponseBodies == {Confirmation, "Report failed", "None", "notjson"}

\* the records the portal's list can hold at report_index: complete, or
\* without ReportStatus, or without ReportFileName
PollRecords ==
    {rec \in Records : /\ rec.ReportFileName = <<"r">>
                       /\ Keys \ rec.keys \in {{}, {"ReportStatus"},
                                               {"ReportFileName"}}}

\* what one poll can meet: the awaited response does not arrive in time, it
\* arrives without a usable "Data" list, or it arrives with a record
PollOutcomes ==
    {[kind |-> "timeout"], [kind |-> "nodata"]}
        \cup {[kind |-> "record", rec |-> rec] : rec \in PollRecords}

\* run_report(page): the request for the report is submitted
run_report ==
    /\ sent' = sent + 1
    /\ pending' = pending \cup {sent + 1}

\* handle_response(response) for the response to request k carrying b:
\* ResponseCheck.set_response(response.json().get("Message")), any
\* exception swallowed
handle_response(k, b) ==
    /\ k \in pending
    /\ mpc \notin {"failed", "crashed", "closed"}
    /\ pending' = pending \ {k}
    /\ IF b = "notjson"
       THEN UNCHANGED <<response, origin>>
       ELSE /\ response' = b
            /\ origin' = k
    /\ UNCHANGED <<hist, mpc, sent, checks, pollLog, desc, fetched, written,
                   msg>>
    /\ UNCHANGED <<retryVars, rerunVars>>

\* ResponseCheck.check_response(Confirmation) made for the request sent
\* last; its result is recorded with the request whose response it consumed
checked(result) ==
    /\ response' = AfterCheck(response, result)
    /\ origin' = 0
    /\ checks' = Append(checks, [req |-> sent, seen |-> response,
                                 ret |-> result, from |-> origin])

\* lines 125-129 as they would be without the early return
AfterMainCheck_NoReturn(result) == "polling"

\* lines 125-129: main goes on to the Reports tab and the poll loop when
\* the check returned True, and returns when it did not
AfterMainCheck(result) == IF result THEN "polling" ELSE "failed"

\* line 307 as it would be if the status were never tested
PollAgain_Never(d) == FALSE

\* line 307: report.status == ReportStatus.Processing.value
PollAgain(d) == d.status = Processing

\* lines 295-298 as they would be if a failed wait were caught and the loop
\* continued
AfterFailedWait_Retry == "polling"

\* lines 295-298: the TimeoutError of the awaited response leaves
\* get_report_details and main
AfterFailedWait == "crashed"

\* one pass of the while loop of get_report_details, meeting o
get_report_details(o) ==
    /\ mpc = "polling"
    /\ Len(pollLog) < MaxPolls
    /\ CASE o.kind = "timeout" ->
              /\ pollLog' = Append(pollLog, [kind |-> "timeout",
                                             desc |-> Nothing])
              /\ mpc' = AfterFailedWait
              /\ UNCHANGED desc
         [] o.kind = "nodata" ->
              \* response_value.get("Data")[report_index] raises
              /\ pollLog' = Append(pollLog, [kind |-> "nodata",
                                             desc |-> Nothing])
              /\ mpc' = "crashed"
              /\ UNCHANGED desc
         [] o.kind = "record" ->
              LET report == ReportDetails(o.rec)
              IN /\ pollLog' = Append(pollLog, [kind |-> "record",
                                                desc |-> report])
                 /\ IF report.kind = "raise"
                    THEN mpc' = "crashed" /\ UNCHANGED desc
                    ELSE /\ desc' = report
                         /\ mpc' = IF PollAgain(report) THEN "polling"
                                   ELSE "details"
    /\ UNCHANGED <<sent, pending, origin, checks, fetched, written, msg>>
    /\ UNCHANGED <<retryVars, slotVars, rerunVars>>

\* the filepath main gives to download_report: the dates of last week and
\* the descriptor's filetype
MainFilepath(d) == [none |-> FALSE, v |-> <<"w", ".">> \o d.filetype]

\* line 124
RunReport ==
    /\ mpc = "start"
    /\ run_report
    /\ mpc' = "submitted"
    /\ UNCHANGED <<origin, checks, pollLog, desc, fetched, written, msg>>
    /\ UNCHANGED <<retryVars, slotVars, rerunVars>>

\* the response listener is called back
HandleResponse == \E k \in pending, b \in ResponseBodies : handle_response(k, b)

\* lines 125-130
CheckSubmitted ==
    /\ mpc = "submitted"
    /\ LET result == CheckResult(response, Confirmation)
       IN /\ checked(result)
          /\ mpc' = AfterMainCheck(result)
    /\ UNCHANGED <<hist, sent, pending, pollLog, desc, fetched, written, msg>>
    /\ UNCHANGED <<retryVars, rerunVars>>

\* line 132, one pass of the loop at a time
Poll == \E o \in PollOutcomes : get_report_details(o)

\* lines 133-139
MainDownload ==
    /\ mpc = "details"
    /\ \E resp \in FetchResponses :
           download_report(desc, MainFilepath(desc), resp)
    /\ mpc' = "closed"
    /\ UNCHANGED <<sent, pending, origin, checks, pollLog, desc>>
    /\ UNCHANGED <<retryVars, slotVars, rerunVars>>

NextMain == RunReport \/ HandleResponse \/ CheckSubmitted \/ Poll
                \/ MainDownload

SpecMain == Init /\ [][NextMain]_vars

(* ------------- the retried report request of Retry's docstring --------- *)
\* the Retry instance of the docstring after its calls of add_func, of
\* which the last two are kept here: run_report, and
\* ResponseCheck.check_response with expect_val=True
InitAsync ==
    /\ loop = <<[id |-> 1, named |-> TRUE, expected |-> NO_EXPECTATION],
                [id |-> 2, named |-> TRUE, expected |-> "True"]>>
    /\ pc = "build" /\ retries = 0 /\ delay = 0
    /\ attempt = 0 /\ i = 0 /\ ret = FALSE /\ trace = << >> /\ sleeps = 0
    /\ response = "None" /\ hist = << >> /\ runs = 0 /\ kept = << >>
    /\ mpc = "start" /\ sent = 0 /\ pending = {} /\ origin = 0
    /\ checks = << >> /\ pollLog = << >>
    /\ desc = Nothing /\ fetched = Nothing /\ written = Nothing
    /\ msg = "none"

\* the pass of run's inner for that invokes run_report
LoopRunReport ==
    /\ i = 1
    /\ invoke([kind |-> "return", val |-> "None"])
    /\ run_report
    /\ UNCHANGED <<mpc, origin, checks, pollLog, desc, fetched, written, msg>>
    /\ UNCHANGED <<slotVars, rerunVars>>

\* the pass of run's inner for that invokes check_response
LoopCheckResponse ==
    /\ i = 2
    /\ LET result == CheckResult(response, Confirmation)
       IN /\ invoke([kind |-> "return",
                     val |-> IF result THEN "True" ELSE "False"])
          /\ checked(result)
    /\ UNCHANGED <<hist, mpc, sent, pending, pollLog, desc, fetched, written,
                   msg>>
    /\ UNCHANGED rerunVars

NextAsync == RunNoDelay \/ LoopRunReport \/ LoopCheckResponse
                 \/ HandleResponse

SpecAsync == InitAsync /\ [][NextAsync]_vars

(* ------------- properties of ReportDetails and download_report --------- *)
\* C19: download_report writes a file exactly when the fetch returns status
\* 200, and then the content is the response body and the path is the
\* caller's filepath when one is given, else filename_ext; for any other
\* status nothing is written and the failure message is printed, not the
\* success message.
C19_DownloadOutcome ==
    mpc = "downloaded" =>
        /\ written # Nothing <=> fetched.status = HttpOk
        /\ written # Nothing =>
               /\ written.content = fetched.body
               /\ written.path = IF Truthy(fetched.filepath)
                                  THEN fetched.filepath.v
                                  ELSE desc.filename_ext
        /\ msg = IF fetched.status = HttpOk THEN "success" ELSE "failure"

\* C20: building a ReportDetails from a record that lacks any of its keys
\* does not raise, and gives a descriptor whose field for each absent key is
\* None.
C20_MissingKeysNoRaise ==
    mpc # "record" =>
        /\ desc.kind = "details"
        /\ mpc # "crashed"

(* ------------------------- properties of main -------------------------- *)
\* the n-th poll built a descriptor
Built(n) == pollLog[n].kind = "record" /\ pollLog[n].desc.kind = "details"

\* get_report_details has returned a descriptor to main
Returned == mpc \in {"details", "closed"}

\* C12: when the descriptors built by the first n-1 polls have status
\* "Processing" and the one built by the n-th poll has any other status,
\* get_report_details makes exactly n polls and returns the descriptor of
\* the n-th; it never returns a descriptor whose status is "Processing".
C12_PollUntilReady ==
    /\ \A n \in 1..Len(pollLog) :
           (/\ \A m \in 1..n : Built(m)
            /\ \A m \in 1..(n - 1) : pollLog[m].desc.status = Processing
            /\ pollLog[n].desc.status # Processing) =>
               /\ Len(pollLog) = n
               /\ Returned
               /\ desc = pollLog[n].desc
    /\ Returned =>
           /\ pollLog # << >>
           /\ desc = pollLog[Len(pollLog)].desc
           /\ desc.kind = "details"
           /\ desc.status # Processing

\* C12 happens: polls that met Processing, Processing, Completed, and the
\* third descriptor returned
C12_Witness ==
    /\ mpc = "details"
    /\ Len(pollLog) = 3
    /\ Built(1) /\ pollLog[1].desc.status = Processing
    /\ Built(2) /\ pollLog[2].desc.status = Processing
    /\ Built(3) /\ pollLog[3].desc.status = "Completed"
    /\ desc = pollLog[3].desc

\* C14: a check_response made for the current request never returns True
\* on a value set by the response to an earlier request, also when the
\* check is the last function of a Retry loop that submits the request
\* again in each attempt, however the callbacks are interleaved.
C14_NoStaleMatch ==
    \A n \in 1..Len(checks) : checks[n].ret => checks[n].from = checks[n].req

\* C17: main polls, fetches and writes only after its check_response has
\* returned True; when the text observed does not match, or none was
\* observed, the check returns False and main returns with no poll, no
\* fetch and no file; a descriptor given to download_report never has the
\* status "Processing".
C17_MainOrdering ==
    /\ (mpc \in {"polling", "details", "closed"} \/ pollLog # << >>
          \/ fetched # Nothing \/ written # Nothing) =>
           (Len(checks) = 1 /\ checks[1].ret)
    /\ \A n \in 1..Len(checks) :
           /\ checks[n].ret <=> checks[n].seen = Confirmation
           /\ ~checks[n].ret =>
                  /\ mpc = "failed"
                  /\ pollLog = << >>
                  /\ fetched = Nothing
                  /\ written = Nothing
    /\ fetched # Nothing =>
           /\ desc.kind = "details"
           /\ desc.status # Processing

\* C17 happens: main has run to its end and a file is written
C17_Witness ==
    /\ mpc = "closed"
    /\ written # Nothing
    /\ Len(pollLog) = 2
    /\ checks[1].ret

\* C18: a poll whose awaited response does not arrive is the last poll:
\* the timeout leaves get_report_details and main, and no poll, fetch or
\* file write follows it.
C18_FailedWaitFatal ==
    \A n \in 1..Len(pollLog) :
        pollLog[n].kind = "timeout" =>
            /\ n = Len(pollLog)
            /\ mpc = "crashed"
            /\ fetched = Nothing
            /\ written = Nothing

\* C18 happens: the second poll timed out after a first one that met
\* "Processing"
C18_Witness ==
    /\ Len(pollLog) = 2
    /\ Built(1) /\ pollLog[1].desc.status = Processing
    /\ pollLog[2].kind = "timeout"

(* -------------------- properties of the descriptor --------------------- *)
\* s ends with t
EndsWith(s, t) ==
    Len(t) <= Len(s) /\ SubSeq(s, Len(s) - Len(t) + 1, Len(s)) = t

\* c occurs in s
Contains(s, c) == \E k \in 1..Len(s) : s[k] = c

\* C21: filename_ext is the lower-cased last backslash-separated segment of
\* ReportFileName; when filename_ext has a ".", filetype is what follows
\* its last "." and filename + "." + filetype = filename_ext; filename is
\* filename_ext without a trailing "." + filetype; "C:\out\Weekly
\* Report.PDF" gives "weekly report.pdf", "pdf" and "weekly report".
C21_NameDerivation ==
    (mpc # "record" /\ desc.kind = "details") =>
        LET p == desc.server_filepath
            n == Len(desc.filename_ext)
            dotted == <<".">> \o desc.filetype
        IN /\ n <= Len(p)
           /\ \A k \in 1..n :
                  /\ p[Len(p) - n + k] # "\\"
                  /\ desc.filename_ext[k] = LowerChar(p[Len(p) - n + k])
           /\ n < Len(p) => p[Len(p) - n] = "\\"
           /\ Contains(desc.filename_ext, ".") =>
                  /\ ~Contains(desc.filetype, ".")
                  /\ desc.filename \o dotted = desc.filename_ext
           /\ desc.filename = IF EndsWith(desc.filename_ext, dotted)
                              THEN SubSeq(desc.filename_ext, 1,
                                          n - Len(dotted))
                              ELSE desc.filename_ext
           /\ p = InstancePath =>
                  /\ desc.filename_ext
                       = <<"w", "e", "e", "k", "l", "y", " ", "r", "e", "p",
                           "o", "r", "t", ".", "p", "d", "f">>
                  /\ desc.filetype = <<"p", "d", "f">>
                  /\ desc.filename
                       = <<"w", "e", "e", "k", "l", "y", " ", "r", "e", "p",
                           "o", "r", "t">>

\* C21 happens: the descriptor of "C:\out\Weekly Report.PDF" is built
C21_Witness ==
    /\ mpc = "details"
    /\ desc.kind = "details"
    /\ desc.server_filepath = InstancePath
    /\ desc.filetype = <<"p", "d", "f">>

\* C22: the descriptor that get_report_details returns to main, and that
\* main downloads, is that of the report this run requested, never that of
\* a report that was in the portal's list before.
C22_DownloadsRequested == Returned => desc.id = "new"

====
